---- MODULE Spec2Model ----
(***************************************************************************)
(* MinimalBlogSearchEngine (src/search_engine.py): index construction over *)
(* a directory of blog files, embedding search and the text fallback; and  *)
(* the Flask application in front of it (src/app.py).                      *)
(*                                                                         *)
(* Text is a sequence of one-character strings.  A vector of the embedding *)
(* table is a tuple of integers; a document embedding (a mean of vectors)  *)
(* is the exact rational [num |-> component sums, den |-> how many].  A    *)
(* score is the real number a / sqrt(n), kept as [a |-> a, n |-> n].       *)
(***************************************************************************)
EXTENDS Integers, Sequences, FiniteSets, TLC

VARIABLES
    model_exists,    \* whether Word2Vec.load(model_path) succeeds
    dir_exists,      \* whether os.path.exists(self.blog_directory)
    listing,         \* os.listdir(self.blog_directory), in its order
    files,           \* file name -> its text, or Unreadable
    pc,              \* new, init, loop, embed: where the constructor is;
                     \* raised: it raised; done: the engine is built;
                     \* returned: a call on the engine has returned
                     \* boot, failed, serving: where the application is
    pending,         \* the file names the for loop of _index_blogs has left
    blog_metadata,   \* self.blog_metadata, insertion-ordered
    doc_embeddings,  \* self.doc_embeddings, insertion-ordered
    error_log,       \* what logging.error has reported, in order
    last,            \* the last query-time call and what it returned
    search_engine,   \* the global of app.py: "None" or "engine"
    threads          \* request thread -> the call it is in the middle of

vars == <<model_exists, dir_exists, listing, files, pc, pending,
          blog_metadata, doc_embeddings, error_log, last, search_engine,
          threads>>

(***************************************************************************)
(* Bounds of the model                                                     *)
(***************************************************************************)
\* longest directory listing
MaxFiles == 3
\* largest top_k passed to search
MaxTopK == 3
\* most negative top_k passed to search is -NegTopK
NegTopK == 2
\* most lines of a file handed to the header parser (SpecParse)
MaxLines == 3
\* request threads of the application server (SpecApp)
NThreads == 2

(***************************************************************************)
(* Characters and strings                                                  *)
(***************************************************************************)
NL == "\n"
SP == " "

LowerLetters ==
    {"a","b","c","d","e","f","g","h","i","j","k","l","m",
     "n","o","p","q","r","s","t","u","v","w","x","y","z"}

\* str.lower() on the capital letters the model's texts use
LowerOf ==
    [c \in {"A","C","D","L","R","T","U","Z"} |->
        CASE c = "A" -> "a" [] c = "C" -> "c" [] c = "D" -> "d"
          [] c = "L" -> "l" [] c = "R" -> "r" [] c = "T" -> "t"
          [] c = "U" -> "u" [] c = "Z" -> "z"]

LowerChar(c) == IF c \in DOMAIN LowerOf THEN LowerOf[c] ELSE c

\* str.lower()
Lower(s) == [i \in 1..Len(s) |-> LowerChar(s[i])]

IsSpace(c) == c \in {SP, NL, "\t"}

RECURSIVE LStrip(_)
LStrip(s) == IF s # <<>> /\ IsSpace(Head(s)) THEN LStrip(Tail(s)) ELSE s

RECURSIVE RStrip(_)
RStrip(s) ==
    IF s # <<>> /\ IsSpace(s[Len(s)]) THEN RStrip(SubSeq(s, 1, Len(s) - 1)) ELSE s

\* str.strip()
Strip(s) == RStrip(LStrip(s))

\* s.startswith(p)
StartsWith(s, p) == Len(p) <= Len(s) /\ SubSeq(s, 1, Len(p)) = p

\* s.endswith(p)
EndsWith(s, p) == Len(p) <= Len(s) /\ SubSeq(s, Len(s) - Len(p) + 1, Len(s)) = p

\* `w in s` for strings: w occurs in s as a contiguous substring
IsSubstring(w, s) ==
    \E i \in 0..(Len(s) - Len(w)) : SubSeq(s, i + 1, i + Len(w)) = w

\* s.replace(p, ''): every occurrence of p, left to right, removed
RECURSIVE RemoveAll(_, _)
RemoveAll(s, p) ==
    IF s = <<>> THEN <<>>
    ELSE IF StartsWith(s, p) THEN RemoveAll(SubSeq(s, Len(p) + 1, Len(s)), p)
    ELSE <<Head(s)>> \o RemoveAll(Tail(s), p)

\* s.split('\n')
RECURSIVE SplitScan(_, _, _)
SplitScan(rest, line, acc) ==
    IF rest = <<>> THEN Append(acc, line)
    ELSE IF Head(rest) = NL THEN SplitScan(Tail(rest), <<>>, Append(acc, line))
    ELSE SplitScan(Tail(rest), Append(line, Head(rest)), acc)

SplitLines(s) == SplitScan(s, <<>>, <<>>)

\* '\n'.join(lines)
RECURSIVE JoinLines(_)
JoinLines(lines) ==
    IF lines = <<>> THEN <<>>
    ELSE IF Len(lines) = 1 THEN lines[1]
    ELSE lines[1] \o <<NL>> \o JoinLines(Tail(lines))

\* Python's seq[:k]: the first k elements, and for k < 0 all but the last -k
SliceTo(s, k) ==
    IF k >= 0 THEN SubSeq(s, 1, IF k < Len(s) THEN k ELSE Len(s))
    ELSE SubSeq(s, 1, Len(s) + k)

\* Python's seq[k:] for k >= 0
SliceFrom(s, k) == SubSeq(s, k + 1, Len(s))

\* dict.get(key, default)
Get(d, k, default) == IF k \in DOMAIN d THEN d[k] ELSE default

(***************************************************************************)
(* Tokenizer: gensim simple_preprocess(text, min_len=3, max_len=50)        *)
(***************************************************************************)
min_len == 3
max_len == 50

\* a character of a token: alphabetic or underscore, never a digit
IsWordChar(c) == c \in LowerLetters \/ c \in DOMAIN LowerOf \/ c = "_"

RECURSIVE TokenScan(_, _, _)
TokenScan(rest, tok, acc) ==
    IF rest = <<>> THEN (IF tok = <<>> THEN acc ELSE Append(acc, tok))
    ELSE IF IsWordChar(Head(rest))
         THEN TokenScan(Tail(rest), Append(tok, Head(rest)), acc)
         ELSE TokenScan(Tail(rest), <<>>, IF tok = <<>> THEN acc ELSE Append(acc, tok))

\* the maximal alphabetic runs of the lower-cased text, in order
tokenize(text) == TokenScan(Lower(text), <<>>, <<>>)

KeepToken(t) == min_len <= Len(t) /\ Len(t) <= max_len /\ Head(t) # "_"

_clean_text(text) == SelectSeq(tokenize(text), KeepToken)

(***************************************************************************)
(* Words, and the embedding table self.model.wv (a trained Word2Vec model) *)
(***************************************************************************)
cat == <<"c","a","t">>
dog == <<"d","o","g">>
neg == <<"n","e","g">>
mix == <<"m","i","x">>
\* a word the embedding table does not hold
zzz == <<"z","z","z">>

wv ==
    [w \in {cat, dog, neg, mix} |->
        CASE w = cat -> <<1, 0>>
          [] w = dog -> <<0, 1>>
          [] w = neg -> <<-1, 0>>
          [] w = mix -> <<2, 1>>]

vector_size == Len(wv[cat])

InVocab(word) == word \in DOMAIN wv

Dot(u, v) ==
    LET RECURSIVE S(_)
        S(i) == IF i = 0 THEN 0 ELSE u[i] * v[i] + S(i - 1)
    IN S(Len(u))

RECURSIVE VecSum(_)
VecSum(vectors) ==
    IF Len(vectors) = 1 THEN vectors[1]
    ELSE [i \in 1..Len(vectors[1]) |-> vectors[1][i] + VecSum(Tail(vectors))[i]]

\* np.mean(vectors, axis=0): the component sums over the number of vectors
np_mean(vectors) == [num |-> VecSum(vectors), den |-> Len(vectors)]

\* np.zeros(n)
np_zeros(n) == [num |-> [i \in 1..n |-> 0], den |-> 1]

\* an embedding that counts the words it skipped in the mean
MutCreateCountsSkipped(words) ==
    LET found == SelectSeq(words, InVocab)
        vectors == [i \in 1..Len(found) |-> wv[found[i]]]
    IN IF vectors # <<>> THEN [num |-> VecSum(vectors), den |-> Len(words)]
       ELSE np_zeros(vector_size)

_create_document_emedding(words) ==
    LET found == SelectSeq(words, InVocab)
        vectors == [i \in 1..Len(found) |-> wv[found[i]]]
    IN IF vectors # <<>> THEN np_mean(vectors) ELSE np_zeros(vector_size)

\* np.linalg.norm(e) == 0: every component is zero
NormIsZero(e) == Dot(e.num, e.num) = 0

(***************************************************************************)
(* Header parsing and ingestion of one file                                *)
(***************************************************************************)
TitleLabel == <<"T","i","t","l","e",":"," ">>
AuthorLabel == <<"A","u","t","h","o","r",":"," ">>
CategoryLabel == <<"C","a","t","e","g","o","r","y",":"," ">>
UrlLabel == <<"U","R","L",":"," ">>
Delimiter == <<"=","=","=">>
Ellipsis == <<".",".",".">>
preview_len == 300

EmptyDict == [k \in {} |-> <<>>]

\* metadata[k] = v
Put(d, k, v) == [x \in DOMAIN d \cup {k} |-> IF x = k THEN v ELSE d[x]]

\* a single '=' taken for the delimiter
MutIsDelimiterLine(line) == StartsWith(line, <<"=">>)

\* line.startswith('===')
IsDelimiterLine(line) == StartsWith(line, Delimiter)

\* the for loop over enumerate(lines); i counts lines from 1, so the
\* content_start it returns is the number of lines up to the delimiter
RECURSIVE HeaderScan(_, _, _)
HeaderScan(lines, i, metadata) ==
    IF i > Len(lines) THEN [metadata |-> metadata, content_start |-> 0]
    ELSE LET line == lines[i] IN
        IF StartsWith(line, TitleLabel)
        THEN HeaderScan(lines, i + 1,
                        Put(metadata, "title", Strip(RemoveAll(line, TitleLabel))))
        ELSE IF StartsWith(line, AuthorLabel)
        THEN HeaderScan(lines, i + 1,
                        Put(metadata, "author", Strip(RemoveAll(line, AuthorLabel))))
        ELSE IF StartsWith(line, CategoryLabel)
        THEN HeaderScan(lines, i + 1,
                        Put(metadata, "category", Strip(RemoveAll(line, CategoryLabel))))
        ELSE IF StartsWith(line, UrlLabel)
        THEN HeaderScan(lines, i + 1,
                        Put(metadata, "url", Strip(RemoveAll(line, UrlLabel))))
        ELSE IF IsDelimiterLine(line)
        THEN [metadata |-> metadata, content_start |-> i]
        ELSE HeaderScan(lines, i + 1, metadata)

ContentPreview(blog_conent) ==
    IF Len(blog_conent) > preview_len
    THEN SliceTo(blog_conent, preview_len) \o Ellipsis
    ELSE blog_conent

\* lines 59-76 of _index_single_blog: the metadata and the body of a file
ParseBlog(content) ==
    LET lines == SplitLines(content)
        h == HeaderScan(lines, 1, EmptyDict)
        blog_conent == JoinLines(SliceFrom(lines, h.content_start))
    IN [metadata |-> Put(h.metadata, "content_preview", ContentPreview(blog_conent)),
        blog_conent |-> blog_conent]

\* lines 82-84: the embedding of title + ' ' + body
BlogEmbedding(parsed) ==
    LET all_text == Get(parsed.metadata, "title", <<>>) \o <<SP>> \o parsed.blog_conent
    IN _create_document_emedding(_clean_text(all_text))

(***************************************************************************)
(* Insertion-ordered dictionaries: a sequence of <<key, value>> pairs      *)
(***************************************************************************)
Keys(d) == {d[i][1] : i \in 1..Len(d)}

Lookup(d, k) == d[CHOOSE i \in 1..Len(d) : d[i][1] = k][2]

\* d[k] = v: a new key goes last, an old key keeps its place
DictSet(d, k, v) ==
    IF k \in Keys(d)
    THEN [i \in 1..Len(d) |-> IF d[i][1] = k THEN <<k, v>> ELSE d[i]]
    ELSE Append(d, <<k, v>>)

(***************************************************************************)
(* Query time                                                              *)
(***************************************************************************)
_get_query_embeddings(query) == _create_document_emedding(_clean_text(query))

\* np.dot(q / |q|, d / |d|) = q.d / sqrt(|q|^2 |d|^2); the positive
\* denominators of the two means cancel
CosineSimilarity(q, d) ==
    [a |-> Dot(q.num, d.num), n |-> Dot(q.num, q.num) * Dot(d.num, d.num)]

\* the fixed score 0.5 of a fallback match
fallback_score == [a |-> 1, n |-> 4]

\* s.a / sqrt(s.n) < t.a / sqrt(t.n)
ScoreLess(s, t) ==
    IF s.a < 0 /\ t.a >= 0 THEN TRUE
    ELSE IF s.a >= 0 /\ t.a < 0 THEN FALSE
    ELSE IF s.a >= 0 THEN s.a * s.a * t.n < t.a * t.a * s.n
    ELSE s.a * s.a * t.n > t.a * t.a * s.n

\* the doc_norm > 0 test left out
MutDocIsScored(doc_embedding) == TRUE

\* doc_norm > 0
DocIsScored(doc_embedding) == ~NormIsZero(doc_embedding)

\* the similarities dict, in insertion order: <<filename, similarity>> pairs
_compute_similarities(query_embedding) ==
    IF NormIsZero(query_embedding) THEN <<>>
    ELSE LET Scored(e) == DocIsScored(e[2])
             kept == SelectSeq(doc_embeddings, Scored)
         IN [i \in 1..Len(kept) |->
                <<kept[i][1], CosineSimilarity(query_embedding, kept[i][2])>>]

\* where a stable sort by score, highest first, puts one more item:
\* behind every item whose score is not lower
RECURSIVE InsertDesc(_, _)
InsertDesc(sorted, item) ==
    IF sorted = <<>> THEN <<item>>
    ELSE IF ScoreLess(Head(sorted)[2], item[2]) THEN <<item>> \o sorted
    ELSE <<Head(sorted)>> \o InsertDesc(Tail(sorted), item)

RECURSIVE StableSortDesc(_)
StableSortDesc(items) ==
    IF items = <<>> THEN <<>>
    ELSE InsertDesc(StableSortDesc(SubSeq(items, 1, Len(items) - 1)), items[Len(items)])

\* the sort left out: the similarities in insertion order
MutSortedResults(similarities) == similarities

\* sorted(similarities.items(), key=lambda x: x[1], reverse=True)
SortedResults(similarities) == StableSortDesc(similarities)

\* the content preview left out of the test
MutBlogMatchesTitleOnly(metadata, query_words) ==
    \E word \in query_words :
        IsSubstring(word, Lower(Get(metadata, "title", <<>>)))

\* all(...) in place of any(...)
MutBlogMatchesAll(metadata, query_words) ==
    \A word \in query_words :
        \/ IsSubstring(word, Lower(Get(metadata, "title", <<>>)))
        \/ IsSubstring(word, Lower(Get(metadata, "content_preview", <<>>)))

\* any(word in title or word in content for word in query_words)
BlogMatches(metadata, query_words) ==
    LET title == Lower(Get(metadata, "title", <<>>))
        content == Lower(Get(metadata, "content_preview", <<>>))
    IN \E word \in query_words :
           IsSubstring(word, Lower(title)) \/ IsSubstring(word, Lower(content))

RECURSIVE FallbackLoop(_, _, _)
FallbackLoop(items, query_words, matching_blogs) ==
    IF items = <<>> THEN matching_blogs
    ELSE FallbackLoop(Tail(items), query_words,
            IF BlogMatches(Head(items)[2], query_words)
            THEN Append(matching_blogs,
                        [file |-> Head(items)[1], score |-> fallback_score,
                         metadata |-> Head(items)[2]])
            ELSE matching_blogs)

_fallback_search(query, top_k) ==
    LET tokens == _clean_text(query)
        query_words == {tokens[i] : i \in 1..Len(tokens)}
    IN SliceTo(FallbackLoop(blog_metadata, query_words, <<>>), top_k)

\* the metadata dict handed out for a file: the stored dict, not a copy
MutResultMetadata(filename) == EmptyDict

\* self.blog_metadata.get(filename, {})
ResultMetadata(filename) ==
    IF filename \in Keys(blog_metadata) THEN Lookup(blog_metadata, filename)
    ELSE EmptyDict

\* search from `if not similarities` on: the top_k best, with their metadata
RankedResults(similarities, top_k) ==
    IF similarities = <<>> THEN <<>>
    ELSE LET top == SliceTo(SortedResults(similarities), top_k) IN
        [i \in 1..Len(top) |->
            [file |-> top[i][1], score |-> top[i][2],
             metadata |-> ResultMetadata(top[i][1])]]

\* a search that fills its ranked results up with fallback matches
MutSearch(query, top_k) ==
    LET q == Strip(Lower(query)) IN
    IF q = <<>>
    THEN [results |-> _fallback_search(q, top_k), calls |-> <<"_fallback_search">>,
          similarities |-> <<>>]
    ELSE LET similarities == _compute_similarities(_get_query_embeddings(q)) IN
        [results |-> RankedResults(similarities, top_k) \o _fallback_search(q, top_k),
         calls |-> <<"_get_query_embeddings", "_compute_similarities",
                     "_fallback_search">>,
         similarities |-> similarities]

\* search(query, top_k): the results, the helpers it called, in order, and
\* the similarities it logged
search(query, top_k) ==
    LET q == Strip(Lower(query)) IN
    IF q = <<>>
    THEN [results |-> _fallback_search(q, top_k), calls |-> <<"_fallback_search">>,
          similarities |-> <<>>]
    ELSE LET similarities == _compute_similarities(_get_query_embeddings(q)) IN
        [results |-> RankedResults(similarities, top_k),
         calls |-> <<"_get_query_embeddings", "_compute_similarities">>,
         similarities |-> similarities]

get_stats ==
    [total_blogs |-> Len(doc_embeddings),
     vocabulary_size |-> Cardinality(DOMAIN wv),
     embedding_dimension |-> vector_size]

(***************************************************************************)
(* The inputs: directories, files, queries                                 *)
(***************************************************************************)
Txt == <<".","t","x","t">>

\* the names a directory listing is drawn from, in listing order
FileNames ==
    << <<"a">> \o Txt,
       <<"n","o","t","e","s",".","m","d">>,
       <<"b">> \o Txt,
       <<"c">> \o Txt >>

\* a file open() or read() raises on
Unreadable == [readable |-> FALSE, content |-> <<>>]

Readable(content) == [readable |-> TRUE, content |-> content]

\* Title: cat / === / dog
FileCatDog == JoinLines(<<TitleLabel \o cat, Delimiter, dog>>)
\* Title: Zzz / Author: dog / ==== / mix
FileZzzMix ==
    JoinLines(<<TitleLabel \o <<"Z","z","z">>, AuthorLabel \o dog,
                Delimiter \o <<"=">>, mix>>)
\* === / (empty body): no token at all
FileEmpty == JoinLines(<<Delimiter, <<>>>>)
\* cat neg, no header and no delimiter: the two vectors cancel
FileCancel == cat \o <<SP>> \o neg
\* Title: neg / === / zzz neg
FileNeg == JoinLines(<<TitleLabel \o neg, Delimiter, zzz \o <<SP>> \o neg>>)

Contents == {FileCatDog, FileZzzMix, FileEmpty, FileCancel, FileNeg}

Queries ==
    { <<>>,
      <<SP, SP>>,
      <<"C","a","t",SP>>,
      mix,
      zzz,
      cat \o <<SP>> \o neg,
      dog \o <<SP>> \o zzz }

TopKs == (0 - NegTopK)..MaxTopK

\* the subsequences of FileNames of at most MaxFiles names
Listings ==
    LET n == Len(FileNames)
        Pick(S) == LET RECURSIVE P(_)
                       P(i) == IF i > n THEN <<>>
                               ELSE IF i \in S THEN <<FileNames[i]>> \o P(i + 1)
                               ELSE P(i + 1)
                   IN P(1)
    IN {Pick(S) : S \in {T \in SUBSET (1..n) : Cardinality(T) <= MaxFiles}}

Range(s) == {s[i] : i \in 1..Len(s)}

IsBlogFile(filename) == EndsWith(filename, Txt)

NoCall == [op |-> "none"]

\* no request (of the application) or call (on the engine) in progress
NoRequest == [op |-> "none", kind |-> "none", query |-> <<>>, top_k |-> 0]

Idle == [pc |-> "idle", request |-> NoRequest, similarities |-> <<>>]

NoThreads == [t \in 1..NThreads |-> Idle]

(***************************************************************************)
(* Construction: __init__, _index_blogs, _index_single_blog                *)
(***************************************************************************)
Init ==
    /\ model_exists \in BOOLEAN
    /\ dir_exists \in BOOLEAN
    /\ listing \in (IF dir_exists THEN Listings ELSE {<<>>})
    /\ files \in [Range(listing) -> {Readable(c) : c \in Contents} \cup {Unreadable}]
    /\ \A f \in Range(listing) : ~IsBlogFile(f) => files[f] = Readable(FileCatDog)
    /\ pc = "new"
    /\ pending = <<>>
    /\ blog_metadata = <<>>
    /\ doc_embeddings = <<>>
    /\ error_log = <<>>
    /\ last = NoCall
    /\ search_engine = "None"
    /\ threads = NoThreads

\* __init__, Word2Vec.load returns the model
LoadModel ==
    /\ pc = "new"
    /\ model_exists
    /\ pc' = "init"
    /\ UNCHANGED <<search_engine, threads, model_exists, dir_exists, listing,
                   files, pending, blog_metadata, doc_embeddings, error_log,
                   last>>

\* __init__, Word2Vec.load raises: no engine is constructed
LoadModelRaises ==
    /\ pc = "new"
    /\ ~model_exists
    /\ pc' = "raised"
    /\ UNCHANGED <<search_engine, threads, model_exists, dir_exists, listing,
                   files, pending, blog_metadata, doc_embeddings, error_log,
                   last>>

\* _index_blogs without its os.path.exists check: os.listdir raises out of
\* __init__
MutIndexBlogsDirMissing ==
    /\ pc = "init"
    /\ ~dir_exists
    /\ pc' = "raised"
    /\ UNCHANGED <<search_engine, threads, model_exists, dir_exists, listing,
                   files, pending, blog_metadata, doc_embeddings, error_log,
                   last>>

\* _index_blogs, the directory does not exist: logged, nothing indexed
IndexBlogsDirMissing ==
    /\ pc = "init"
    /\ ~dir_exists
    /\ error_log' = Append(error_log, <<"Blog directory not found">>)
    /\ pc' = "done"
    /\ UNCHANGED <<search_engine, threads, model_exists, dir_exists, listing,
                   files, pending, blog_metadata, doc_embeddings, last>>

\* _index_blogs, os.listdir
IndexBlogsListDir ==
    /\ pc = "init"
    /\ dir_exists
    /\ pending' = listing
    /\ pc' = "loop"
    /\ UNCHANGED <<search_engine, threads, model_exists, dir_exists, listing,
                   files, blog_metadata, doc_embeddings, error_log, last>>

\* the loop of _index_blogs passes a name that does not end in .txt
SkipFile ==
    /\ pc = "loop"
    /\ pending # <<>>
    /\ ~IsBlogFile(Head(pending))
    /\ pending' = Tail(pending)
    /\ UNCHANGED <<search_engine, threads, model_exists, dir_exists, listing,
                   files, pc, blog_metadata, doc_embeddings, error_log, last>>

\* _index_single_blog without its try block: the error of open() or read()
\* leaves _index_blogs and __init__
MutIndexSingleBlogReadError ==
    /\ pc = "loop"
    /\ pending # <<>>
    /\ IsBlogFile(Head(pending))
    /\ ~files[Head(pending)].readable
    /\ pc' = "raised"
    /\ UNCHANGED <<search_engine, threads, model_exists, dir_exists, listing,
                   files, pending, blog_metadata, doc_embeddings, error_log,
                   last>>

\* _index_single_blog, open() or read() raises: caught and logged
IndexSingleBlogReadError ==
    /\ pc = "loop"
    /\ pending # <<>>
    /\ IsBlogFile(Head(pending))
    /\ ~files[Head(pending)].readable
    /\ error_log' = Append(error_log, <<"Error indexing", Head(pending)>>)
    /\ pending' = Tail(pending)
    /\ pc' = "loop"
    /\ UNCHANGED <<search_engine, threads, model_exists, dir_exists, listing,
                   files, blog_metadata, doc_embeddings, last>>

\* _index_single_blog up to self.blog_metadata[filename] = metadata
IndexSingleBlogMetadata ==
    /\ pc = "loop"
    /\ pending # <<>>
    /\ IsBlogFile(Head(pending))
    /\ files[Head(pending)].readable
    /\ blog_metadata' = DictSet(blog_metadata, Head(pending),
                                ParseBlog(files[Head(pending)].content).metadata)
    /\ pc' = "embed"
    /\ UNCHANGED <<search_engine, threads, model_exists, dir_exists, listing,
                   files, pending, doc_embeddings, error_log, last>>

\* _index_single_blog from the tokenizing to
\* self.doc_embeddings[filename] = doc_embedding
IndexSingleBlogEmbedding ==
    /\ pc = "embed"
    /\ doc_embeddings' = DictSet(doc_embeddings, Head(pending),
                                 BlogEmbedding(ParseBlog(files[Head(pending)].content)))
    /\ pending' = Tail(pending)
    /\ pc' = "loop"
    /\ UNCHANGED <<search_engine, threads, model_exists, dir_exists, listing,
                   files, blog_metadata, error_log, last>>

\* _index_single_blog, the tokenizing or the embedding raises (the try
\* block covers them): caught and logged, the embedding is never stored
IndexSingleBlogEmbedError ==
    /\ pc = "embed"
    /\ error_log' = Append(error_log, <<"Error indexing", Head(pending)>>)
    /\ pending' = Tail(pending)
    /\ pc' = "loop"
    /\ UNCHANGED <<search_engine, threads, model_exists, dir_exists, listing,
                   files, blog_metadata, doc_embeddings, last>>

\* the loop of _index_blogs ends, and with it __init__
IndexBlogsEnd ==
    /\ pc = "loop"
    /\ pending = <<>>
    /\ pc' = "done"
    /\ UNCHANGED <<search_engine, threads, model_exists, dir_exists, listing,
                   files, pending, blog_metadata, doc_embeddings, error_log,
                   last>>

(***************************************************************************)
(* Calls on the constructed engine                                         *)
(***************************************************************************)
Search ==
    /\ pc = "done"
    /\ \E query \in Queries, top_k \in TopKs :
        LET r == search(query, top_k) IN
        last' = [op |-> "search", query |-> query, top_k |-> top_k,
                 results |-> r.results, calls |-> r.calls,
                 similarities |-> r.similarities]
    /\ pc' = "returned"
    /\ UNCHANGED <<search_engine, threads, model_exists, dir_exists, listing,
                   files, pending, blog_metadata, doc_embeddings, error_log>>

\* _fallback_search called on its own, with a count of results wanted
FallbackSearch ==
    /\ pc = "done"
    /\ \E query \in Queries, top_k \in 0..MaxTopK :
        last' = [op |-> "_fallback_search", query |-> query, top_k |-> top_k,
                 results |-> _fallback_search(query, top_k),
                 calls |-> <<"_fallback_search">>, similarities |-> <<>>]
    /\ pc' = "returned"
    /\ UNCHANGED <<search_engine, threads, model_exists, dir_exists, listing,
                   files, pending, blog_metadata, doc_embeddings, error_log>>

GetStats ==
    /\ pc = "done"
    /\ last' = [op |-> "get_stats", stats |-> get_stats]
    /\ pc' = "returned"
    /\ UNCHANGED <<search_engine, threads, model_exists, dir_exists, listing,
                   files, pending, blog_metadata, doc_embeddings, error_log>>

\* the caller takes the result; the engine is ready for the next call
Return ==
    /\ pc = "returned"
    /\ pc' = "done"
    /\ last' = NoCall
    /\ UNCHANGED <<search_engine, threads, model_exists, dir_exists, listing,
                   files, pending, blog_metadata, doc_embeddings, error_log>>

Next ==
    \/ LoadModel
    \/ LoadModelRaises
    \/ IndexBlogsDirMissing
    \/ IndexBlogsListDir
    \/ SkipFile
    \/ IndexSingleBlogReadError
    \/ IndexSingleBlogMetadata
    \/ IndexSingleBlogEmbedding
    \/ IndexSingleBlogEmbedError
    \/ IndexBlogsEnd
    \/ Search
    \/ FallbackSearch
    \/ GetStats
    \/ Return

Spec == Init /\ [][Next]_vars

(***************************************************************************)
(* Ingestion of one file made of any lines: the header parser's inputs     *)
(***************************************************************************)
ParseLines ==
    { TitleLabel \o cat,
      TitleLabel \o dog \o <<SP>>,
      AuthorLabel \o neg,
      CategoryLabel \o mix,
      UrlLabel \o zzz,
      <<"=">>,
      Delimiter,
      Delimiter \o <<"=">>,
      mix,
      <<>> }

ParsedFile == FileNames[1]

InitParse ==
    /\ model_exists = TRUE
    /\ dir_exists = TRUE
    /\ listing = <<ParsedFile>>
    /\ \E n \in 1..MaxLines : \E lines \in [1..n -> ParseLines] :
           files = [f \in {ParsedFile} |-> Readable(JoinLines(lines))]
    /\ pc = "new"
    /\ pending = <<>>
    /\ blog_metadata = <<>>
    /\ doc_embeddings = <<>>
    /\ error_log = <<>>
    /\ last = NoCall
    /\ search_engine = "None"
    /\ threads = NoThreads

NextParse ==
    \/ LoadModel
    \/ IndexBlogsListDir
    \/ IndexSingleBlogMetadata
    \/ IndexSingleBlogEmbedding
    \/ IndexSingleBlogEmbedError
    \/ IndexBlogsEnd

SpecParse == InitParse /\ [][NextParse]_vars

(***************************************************************************)
(* _create_document_emedding on its own: a built engine is handed a word   *)
(* list, the way _index_single_blog and _get_query_embeddings hand it one. *)
(***************************************************************************)
MaxWords == 3

Words == {cat, dog, neg, mix, zzz}

WordLists == UNION {[1..n -> Words] : n \in 0..MaxWords}

InitEmbed ==
    /\ model_exists = TRUE
    /\ dir_exists = TRUE
    /\ listing = <<>>
    /\ files = [f \in {} |-> Unreadable]
    /\ pc = "done"
    /\ pending = <<>>
    /\ blog_metadata = <<>>
    /\ doc_embeddings = <<>>
    /\ error_log = <<>>
    /\ last \in {[op |-> "words", words |-> w] : w \in WordLists}
    /\ search_engine = "None"
    /\ threads = NoThreads

CreateDocumentEmbedding ==
    /\ pc = "done"
    /\ last.op = "words"
    /\ last' = [op |-> "_create_document_emedding", words |-> last.words,
                embedding |-> _create_document_emedding(last.words)]
    /\ pc' = "returned"
    /\ UNCHANGED <<search_engine, threads, model_exists, dir_exists, listing,
                   files, pending, blog_metadata, doc_embeddings, error_log>>

NextEmbed == CreateDocumentEmbedding

SpecEmbed == InitEmbed /\ [][NextEmbed]_vars

(***************************************************************************)
(* The application (src/app.py): the global search_engine, and the route   *)
(* handlers.  A response is [status, body]; a body has every field, and    *)
(* keys says which of them the JSON object holds.  The timestamp of a body *)
(* is a key without a value here.                                          *)
(***************************************************************************)
default_top_k == 5
suggestion_min_len == 4
max_suggestions == 20
max_sample_vocabulary == 20
max_sample_blogs == 10
vocabulary_sample_n == 20

Untitled == <<"U","n","t","i","t","l","e","d">>
Unknown == <<"U","n","k","n","o","w","n">>
General == <<"G","e","n","e","r","a","l">>
NoPreview ==
    <<"N","o"," ","p","r","e","v","i","e","w"," ",
      "a","v","a","i","l","a","b","l","e">>

\* str(e) of the AttributeError query.strip() raises on the JSON number 123
AttributeErrorText == "'int' object has no attribute 'strip'"
\* str(e) of the TypeError sorted_results[:top_k] raises on a JSON string
TypeErrorText ==
    "slice indices must be integers or None or have an __index__ method"

\* list(self.model.wv.key_to_index.keys())
key_to_index == <<cat, dog, neg, mix>>

get_vocabulary_sample(n) == SliceTo(key_to_index, n)

NoBody ==
    [json |-> "object", keys |-> {}, error |-> "", message |-> "",
     query |-> <<>>, results |-> <<>>, total_found |-> 0, status |-> "",
     search_engine_loaded |-> FALSE, blog_count |-> 0, vocabulary_size |-> 0,
     indexed_words |-> 0, sample_vocabulary |-> <<>>, sample_blogs |-> <<>>,
     suggestions |-> <<>>, total_vocabulary |-> 0, total_blogs |-> 0,
     embedding_dimension |-> 0]

\* what a handler or a call did: its response, the engine operations it
\* invoked, and str(e) of the exception it caught ("" when none)
Outcome(response, calls, raised) ==
    [response |-> response, calls |-> calls, raised |-> raised]

\* jsonify({'error': error}), status
ErrorResponse(status, error) ==
    [status |-> status,
     body |-> [NoBody EXCEPT !.keys = {"error"}, !.error = error]]

\* lines 58-62
SearchUnavailable ==
    [status |-> 500,
     body |-> [NoBody EXCEPT
                 !.keys = {"error", "message"},
                 !.error = "Search engine not initialized",
                 !.message = "Please check server logs for initialization errors"]]

\* the except of lines 103-108
SearchFailed(e) ==
    [status |-> 500,
     body |-> [NoBody EXCEPT !.keys = {"error", "message"},
                             !.error = "Search failed", !.message = e]]

\* top_k = data.get('top_k', 5)
TopKOf(request) ==
    IF request.kind = "query" THEN default_top_k ELSE request.top_k

\* lines 82-94
FormattedResults(results) ==
    [i \in 1..Len(results) |->
        [file |-> results[i].file,
         score |-> results[i].score,
         metadata |->
            [title |-> Get(results[i].metadata, "title", Untitled),
             author |-> Get(results[i].metadata, "author", Unknown),
             category |-> Get(results[i].metadata, "category", General),
             url |-> Get(results[i].metadata, "url", <<>>),
             content_preview |->
                 Get(results[i].metadata, "content_preview", NoPreview)]]]

\* lines 96-101
SearchResponse(request, results) ==
    [status |-> 200,
     body |-> [NoBody EXCEPT
                 !.keys = {"query", "results", "total_found", "timestamp"},
                 !.query = request.query,
                 !.results = FormattedResults(results),
                 !.total_found = Len(results)]]

\* search_blogs up to the call of search_engine.search: whether it has
\* answered already (lines 65-75), and with what
SearchBlogsEarly(request) ==
    IF request.kind \in {"no_json", "no_query"}
    THEN [early |-> TRUE,
          outcome |-> Outcome(ErrorResponse(400, "Missing query parameter"),
                              <<>>, "")]
    ELSE IF request.kind = "query_not_str"
    THEN [early |-> TRUE,
          outcome |-> Outcome(SearchFailed(AttributeErrorText), <<>>,
                              AttributeErrorText)]
    ELSE IF Strip(request.query) = <<>>
    THEN [early |-> TRUE,
          outcome |-> Outcome(ErrorResponse(400, "Empty query"), <<>>, "")]
    ELSE [early |-> FALSE,
          outcome |-> Outcome([status |-> 0, body |-> NoBody], <<>>, "")]

\* sorted_results[:top_k] with a top_k that is no integer; `if not
\* similarities: return []` comes first
SliceRaises(request, similarities) ==
    request.kind = "top_k_not_int" /\ similarities # <<>>

\* search_blogs from the return of _compute_similarities inside search on
SearchBlogsRank(request, similarities) ==
    IF SliceRaises(request, similarities)
    THEN Outcome(SearchFailed(TypeErrorText), <<"search">>, TypeErrorText)
    ELSE Outcome(SearchResponse(request,
                                RankedResults(similarities, TopKOf(request))),
                 <<"search">>, "")

\* search_blogs, the whole handler on the index as it is now
search_blogs(request) ==
    IF search_engine = "None" THEN Outcome(SearchUnavailable, <<>>, "")
    ELSE LET e == SearchBlogsEarly(request) IN
        IF e.early THEN e.outcome
        ELSE LET r == search(request.query, 0) IN
            IF SliceRaises(request, r.similarities)
            THEN Outcome(SearchFailed(TypeErrorText), <<"search">>, TypeErrorText)
            ELSE Outcome(SearchResponse(request,
                             search(request.query, TopKOf(request)).results),
                         <<"search">>, "")

\* health_check
health_check ==
    Outcome(
        [status |-> 200,
         body |-> [NoBody EXCEPT
                     !.keys = {"status", "search_engine_loaded", "blog_count",
                               "vocabulary_size", "timestamp"},
                     !.status = IF search_engine # "None" THEN "healthy"
                                ELSE "unhealthy",
                     !.search_engine_loaded = search_engine # "None",
                     !.blog_count = IF search_engine # "None"
                                    THEN Len(blog_metadata) ELSE 0,
                     !.vocabulary_size = IF search_engine # "None"
                                         THEN Len(key_to_index) ELSE 0]],
        <<>>, "")

\* the body of /stats, lines 127-133
StatsBody ==
    [NoBody EXCEPT
       !.keys = {"blog_count", "vocabulary_size", "indexed_words",
                 "sample_vocabulary", "sample_blogs"},
       !.blog_count = Len(blog_metadata),
       !.vocabulary_size = Len(key_to_index),
       !.indexed_words = Len(doc_embeddings),
       !.sample_vocabulary =
           SliceTo(get_vocabulary_sample(vocabulary_sample_n),
                   max_sample_vocabulary),
       !.sample_blogs =
           SliceTo([i \in 1..Len(blog_metadata) |-> blog_metadata[i][1]],
                   max_sample_blogs)]

\* /stats without its check of search_engine
MutAppGetStats ==
    Outcome([status |-> 200, body |-> StatsBody], <<"get_vocabulary_sample">>, "")

\* get_stats of app.py (the engine has a get_stats of its own)
app_get_stats ==
    IF search_engine = "None"
    THEN Outcome(ErrorResponse(500, "Search engine not initialized"), <<>>, "")
    ELSE Outcome([status |-> 200, body |-> StatsBody],
                 <<"get_vocabulary_sample">>, "")

\* word.isalpha() for the words of the table, which are all letters
IsAlpha(word) ==
    /\ word # <<>>
    /\ \A i \in 1..Len(word) : word[i] \in LowerLetters \cup DOMAIN LowerOf

\* get_suggestions
get_suggestions ==
    IF search_engine = "None"
    THEN Outcome([status |-> 200, body |-> [NoBody EXCEPT !.json = "list"]],
                 <<>>, "")
    ELSE LET Meaningful(word) == Len(word) > suggestion_min_len /\ IsAlpha(word)
             meaningful_words == SelectSeq(key_to_index, Meaningful)
         IN Outcome(
                [status |-> 200,
                 body |-> [NoBody EXCEPT
                             !.keys = {"suggestions", "total_vocabulary"},
                             !.suggestions =
                                 SliceTo(meaningful_words, max_suggestions),
                             !.total_vocabulary = Len(key_to_index)]],
                <<>>, "")

(***************************************************************************)
(* The application as a process: initialize_search_engine, then request    *)
(* threads that run the handlers, and callers that use the engine          *)
(* directly.  search takes two steps, so that calls can overlap: up to the *)
(* return of _compute_similarities, and from there to the response.        *)
(***************************************************************************)
Req(op, kind, query, top_k) ==
    [op |-> op, kind |-> kind, query |-> query, top_k |-> top_k]

\* the JSON bodies posted to /search: null; {"top_k": 1}; {"query": q};
\* {"query": q, "top_k": k}; {"query": 123}; {"query": "cat", "top_k": "x"}
SearchRequests ==
    { Req("/search", "no_json", <<>>, 0),
      Req("/search", "no_query", <<>>, 1),
      Req("/search", "query", <<SP, SP>>, 0),
      Req("/search", "query", <<"C","a","t",SP>>, 0),
      Req("/search", "query", zzz, 0),
      Req("/search", "query_top_k", cat \o <<SP>> \o neg, 1),
      Req("/search", "query_not_str", <<>>, 0),
      Req("/search", "top_k_not_int", cat, 0) }

\* search(query, top_k) called on the engine, not through a route
EngineSearchCalls ==
    { Req("search", "call", dog, 2),
      Req("search", "call", <<>>, 1) }

\* the other query-time operations of the engine
EngineCalls ==
    { Req("_fallback_search", "call", cat, 1),
      Req("get_stats", "call", <<>>, 0),
      Req("get_vocabulary_sample", "call", <<>>, vocabulary_sample_n) }

\* dog, no header and no delimiter: metadata without a title
FileDog == dog

AppListing == <<FileNames[1], FileNames[2], FileNames[3]>>

AppContents == {FileCatDog, FileDog}

\* what a call on the engine returns, as a response without a status
Value(body) == [status |-> 0, body |-> [body EXCEPT !.json = "value"]]

\* an engine operation called directly
EngineOutcome(request) ==
    IF request.op = "search"
    THEN LET r == search(request.query, request.top_k)
         IN Outcome(Value([NoBody EXCEPT !.results = r.results]), r.calls, "")
    ELSE IF request.op = "_fallback_search"
    THEN Outcome(Value([NoBody EXCEPT
                          !.results = _fallback_search(request.query,
                                                       request.top_k)]),
                 <<"_fallback_search">>, "")
    ELSE IF request.op = "get_stats"
    THEN Outcome(Value([NoBody EXCEPT
                          !.total_blogs = get_stats.total_blogs,
                          !.vocabulary_size = get_stats.vocabulary_size,
                          !.embedding_dimension = get_stats.embedding_dimension]),
                 <<"get_stats">>, "")
    ELSE Outcome(Value([NoBody EXCEPT
                          !.sample_vocabulary =
                              get_vocabulary_sample(request.top_k)]),
                 <<"get_vocabulary_sample">>, "")

\* the request or call run from start to end on the index as it is now
RunAlone(request) ==
    IF request.op = "/search" THEN search_blogs(request)
    ELSE IF request.op = "/health" THEN health_check
    ELSE IF request.op = "/stats" THEN app_get_stats
    ELSE IF request.op = "/suggest" THEN get_suggestions
    ELSE EngineOutcome(request)

InFlight(t) == threads[t].pc # "idle"

\* the record of a response: what was asked, what came back, and whether
\* another thread was in the middle of a call at that time
Responded(t, request, outcome) ==
    [op |-> "response", request |-> request, response |-> outcome.response,
     calls |-> outcome.calls, raised |-> outcome.raised,
     concurrent |-> \E u \in 1..NThreads \ {t} : InFlight(u)]

InitApp ==
    /\ model_exists \in BOOLEAN
    /\ dir_exists \in BOOLEAN
    /\ listing = (IF dir_exists THEN AppListing ELSE <<>>)
    /\ files \in [Range(listing) -> {Readable(c) : c \in AppContents}]
    /\ \A f \in Range(listing) : ~IsBlogFile(f) => files[f] = Readable(FileCatDog)
    /\ pc = "boot"
    /\ pending = <<>>
    /\ blog_metadata = <<>>
    /\ doc_embeddings = <<>>
    /\ error_log = <<>>
    /\ last = NoCall
    /\ search_engine = "None"
    /\ threads = NoThreads

\* initialize_search_engine, lines 21-23
InitializeModelMissing ==
    /\ pc = "boot"
    /\ ~model_exists
    /\ pc' = "failed"
    /\ UNCHANGED <<search_engine, threads, model_exists, dir_exists, listing,
                   files, pending, blog_metadata, doc_embeddings, error_log,
                   last>>

\* initialize_search_engine, lines 25-27
InitializeDirMissing ==
    /\ pc = "boot"
    /\ ~dir_exists
    /\ pc' = "failed"
    /\ UNCHANGED <<search_engine, threads, model_exists, dir_exists, listing,
                   files, pending, blog_metadata, doc_embeddings, error_log,
                   last>>

\* line 29 enters the constructor; the model file is there, and may not load
InitializeConstruct ==
    /\ pc = "boot"
    /\ dir_exists
    /\ pc' = "new"
    /\ UNCHANGED <<search_engine, threads, model_exists, dir_exists, listing,
                   files, pending, blog_metadata, doc_embeddings, error_log,
                   last>>

\* the constructor raised: lines 31-33
InitializeExcept ==
    /\ pc = "raised"
    /\ pc' = "failed"
    /\ UNCHANGED <<search_engine, threads, model_exists, dir_exists, listing,
                   files, pending, blog_metadata, doc_embeddings, error_log,
                   last>>

\* the constructor returned: line 29 assigns the global, and the server runs
InitializeAssign ==
    /\ pc = "done"
    /\ search_engine' = "engine"
    /\ pc' = "serving"
    /\ UNCHANGED <<threads, model_exists, dir_exists, listing, files, pending,
                   blog_metadata, doc_embeddings, error_log, last>>

\* app is served although initialize_search_engine returned False or was
\* never called (the module imported by a WSGI server): the global is None
ServeUninitialized ==
    /\ pc \in {"boot", "failed"}
    /\ pc' = "serving"
    /\ UNCHANGED <<search_engine, threads, model_exists, dir_exists, listing,
                   files, pending, blog_metadata, doc_embeddings, error_log,
                   last>>

\* search_blogs up to the return of _compute_similarities in search, or to
\* its own return when it answers before that
SearchBlogsBegin(t) ==
    /\ pc = "serving"
    /\ ~InFlight(t)
    /\ \E request \in SearchRequests :
        IF search_engine = "None" \/ SearchBlogsEarly(request).early
        THEN /\ last' = Responded(t, request, search_blogs(request))
             /\ UNCHANGED threads
        ELSE /\ threads' =
                    [threads EXCEPT ![t] =
                        [pc |-> "ranking", request |-> request,
                         similarities |->
                             _compute_similarities(
                                 _get_query_embeddings(
                                     Strip(Lower(request.query))))]]
             /\ UNCHANGED last
    /\ UNCHANGED <<search_engine, model_exists, dir_exists, listing, files,
                   pc, pending, blog_metadata, doc_embeddings, error_log>>

\* formatting that fills the defaults into the stored metadata
\* (metadata.setdefault('author', 'Unknown')) instead of reading them
MutSearchBlogsEnd(t) ==
    /\ pc = "serving"
    /\ threads[t].pc = "ranking"
    /\ threads[t].request.op = "/search"
    /\ LET outcome == SearchBlogsRank(threads[t].request, threads[t].similarities)
           returned == {outcome.response.body.results[i].file :
                            i \in 1..Len(outcome.response.body.results)}
       IN /\ last' = Responded(t, threads[t].request, outcome)
          /\ blog_metadata' =
                 [i \in 1..Len(blog_metadata) |->
                     IF blog_metadata[i][1] \in returned
                     THEN <<blog_metadata[i][1],
                            Put(blog_metadata[i][2], "author",
                                Get(blog_metadata[i][2], "author", Unknown))>>
                     ELSE blog_metadata[i]]
    /\ threads' = [threads EXCEPT ![t] = Idle]
    /\ UNCHANGED <<search_engine, model_exists, dir_exists, listing, files,
                   pc, pending, doc_embeddings, error_log>>

\* search_blogs from the return of _compute_similarities to its response
SearchBlogsEnd(t) ==
    /\ pc = "serving"
    /\ threads[t].pc = "ranking"
    /\ threads[t].request.op = "/search"
    /\ last' = Responded(t, threads[t].request,
                         SearchBlogsRank(threads[t].request,
                                         threads[t].similarities))
    /\ threads' = [threads EXCEPT ![t] = Idle]
    /\ UNCHANGED <<search_engine, model_exists, dir_exists, listing, files,
                   pc, pending, blog_metadata, doc_embeddings, error_log>>

HealthCheck(t) ==
    /\ pc = "serving"
    /\ ~InFlight(t)
    /\ last' = Responded(t, Req("/health", "get", <<>>, 0), health_check)
    /\ UNCHANGED <<search_engine, threads, model_exists, dir_exists, listing,
                   files, pc, pending, blog_metadata, doc_embeddings,
                   error_log>>

AppGetStats(t) ==
    /\ pc = "serving"
    /\ ~InFlight(t)
    /\ last' = Responded(t, Req("/stats", "get", <<>>, 0), app_get_stats)
    /\ UNCHANGED <<search_engine, threads, model_exists, dir_exists, listing,
                   files, pc, pending, blog_metadata, doc_embeddings,
                   error_log>>

GetSuggestions(t) ==
    /\ pc = "serving"
    /\ ~InFlight(t)
    /\ last' = Responded(t, Req("/suggest", "get", <<>>, 0), get_suggestions)
    /\ UNCHANGED <<search_engine, threads, model_exists, dir_exists, listing,
                   files, pc, pending, blog_metadata, doc_embeddings,
                   error_log>>

\* search called on the engine, up to the return of _compute_similarities;
\* the empty query returns from _fallback_search at once
EngineSearchBegin(t) ==
    /\ pc = "serving"
    /\ search_engine = "engine"
    /\ ~InFlight(t)
    /\ \E request \in EngineSearchCalls :
        IF Strip(Lower(request.query)) = <<>>
        THEN /\ last' = Responded(t, request, EngineOutcome(request))
             /\ UNCHANGED threads
        ELSE /\ threads' =
                    [threads EXCEPT ![t] =
                        [pc |-> "ranking", request |-> request,
                         similarities |->
                             _compute_similarities(
                                 _get_query_embeddings(
                                     Strip(Lower(request.query))))]]
             /\ UNCHANGED last
    /\ UNCHANGED <<search_engine, model_exists, dir_exists, listing, files,
                   pc, pending, blog_metadata, doc_embeddings, error_log>>

\* search called on the engine, from there to its return
EngineSearchEnd(t) ==
    /\ pc = "serving"
    /\ threads[t].pc = "ranking"
    /\ threads[t].request.op = "search"
    /\ last' = Responded(t, threads[t].request,
                   Outcome(Value([NoBody EXCEPT
                                    !.results =
                                        RankedResults(threads[t].similarities,
                                                      threads[t].request.top_k)]),
                           <<"_get_query_embeddings", "_compute_similarities">>,
                           ""))
    /\ threads' = [threads EXCEPT ![t] = Idle]
    /\ UNCHANGED <<search_engine, model_exists, dir_exists, listing, files,
                   pc, pending, blog_metadata, doc_embeddings, error_log>>

\* _fallback_search, get_stats or get_vocabulary_sample called on the engine
EngineCall(t) ==
    /\ pc = "serving"
    /\ search_engine = "engine"
    /\ ~InFlight(t)
    /\ \E request \in EngineCalls :
        last' = Responded(t, request, EngineOutcome(request))
    /\ UNCHANGED <<search_engine, threads, model_exists, dir_exists, listing,
                   files, pc, pending, blog_metadata, doc_embeddings,
                   error_log>>

NextApp ==
    \/ InitializeModelMissing
    \/ InitializeDirMissing
    \/ InitializeConstruct
    \/ LoadModel
    \/ LoadModelRaises
    \/ IndexBlogsListDir
    \/ SkipFile
    \/ IndexSingleBlogMetadata
    \/ IndexSingleBlogEmbedding
    \/ IndexSingleBlogEmbedError
    \/ IndexBlogsEnd
    \/ InitializeExcept
    \/ InitializeAssign
    \/ ServeUninitialized
    \/ \E t \in 1..NThreads :
        \/ SearchBlogsBegin(t)
        \/ SearchBlogsEnd(t)
        \/ HealthCheck(t)
        \/ AppGetStats(t)
        \/ GetSuggestions(t)
        \/ EngineSearchBegin(t)
        \/ EngineSearchEnd(t)
        \/ EngineCall(t)

SpecApp == InitApp /\ [][NextApp]_vars

(***************************************************************************)
(* What the properties below read from a state                             *)
(***************************************************************************)
\* the files _index_single_blog logged an error for
FailedFiles == {error_log[i][2] : i \in {j \in 1..Len(error_log) : Len(error_log[j]) = 2}}

Built == pc \in {"done", "returned"}

IsSearch == pc = "returned" /\ last.op = "search"

IsFallback == pc = "returned" /\ last.op = "_fallback_search"

\* the query of the last search as search normalizes it
NormalizedQuery == Strip(Lower(last.query))

\* the last search took the similarity path
IsSimilaritySearch == IsSearch /\ NormalizedQuery # <<>>

QueryEmbedding == _get_query_embeddings(NormalizedQuery)

ResultFiles == {last.results[i].file : i \in 1..Len(last.results)}

ScoredFiles == {last.similarities[i][1] : i \in 1..Len(last.similarities)}

NonZeroDocs ==
    {f \in Keys(doc_embeddings) : ~NormIsZero(Lookup(doc_embeddings, f))}

Max0(k) == IF k > 0 THEN k ELSE 0

(***************************************************************************)
(* C1: between two calls of _index_single_blog and after construction,     *)
(* blog_metadata and doc_embeddings have the same keys, and a file whose   *)
(* ingestion failed is a key of neither.                                   *)
(***************************************************************************)
C1_KeySetsAgree ==
    pc \in {"loop", "done", "returned"} =>
        /\ Keys(blog_metadata) = Keys(doc_embeddings)
        /\ \A f \in FailedFiles :
               f \notin Keys(blog_metadata) /\ f \notin Keys(doc_embeddings)

(***************************************************************************)
(* C2: a search whose normalized query is not empty and whose query        *)
(* embedding has zero magnitude returns what _fallback_search returns for  *)
(* the same normalized query and top_k.                                    *)
(***************************************************************************)
C2_ZeroQueryFallsBack ==
    (IsSimilaritySearch /\ NormIsZero(QueryEmbedding)) =>
        last.results = _fallback_search(NormalizedQuery, last.top_k)

(***************************************************************************)
(* C3: search returns at most top_k results (none for a top_k below one),  *)
(* and all the scored documents when fewer than top_k are scored.          *)
(***************************************************************************)
C3_AtMostTopK ==
    IsSearch =>
        /\ Len(last.results) <= Max0(last.top_k)
        /\ (IsSimilaritySearch /\ Len(last.similarities) < last.top_k)
               => ResultFiles = ScoredFiles

(***************************************************************************)
(* C4: on the similarity path no returned document has a stored embedding  *)
(* of zero magnitude, and when the query embedding is not zero the scored  *)
(* documents are exactly those with a nonzero embedding.                   *)
(***************************************************************************)
C4_ZeroDocsExcluded ==
    IsSimilaritySearch =>
        /\ \A f \in ResultFiles : f \in NonZeroDocs
        /\ ~NormIsZero(QueryEmbedding) => ScoredFiles = NonZeroDocs

C4_Witness ==
    /\ IsSimilaritySearch
    /\ last.results # <<>>
    /\ Len(last.results) < last.top_k
    /\ NonZeroDocs # Keys(doc_embeddings)
    /\ Cardinality(NonZeroDocs) >= 2

(***************************************************************************)
(* C5: the results of the similarity path are in order of score, highest   *)
(* first, and no scored document that was left out has a strictly higher   *)
(* score than a returned one.                                              *)
(***************************************************************************)
C5_TopScoresInOrder ==
    IsSimilaritySearch =>
        /\ \A i, j \in 1..Len(last.results) :
               i < j => ~ScoreLess(last.results[i].score, last.results[j].score)
        /\ \A k \in 1..Len(last.similarities) :
               last.similarities[k][1] \notin ResultFiles =>
                   \A i \in 1..Len(last.results) :
                       ~ScoreLess(last.results[i].score, last.similarities[k][2])

C5_Witness ==
    /\ IsSimilaritySearch
    /\ Len(last.results) = 2
    /\ Len(last.similarities) = 3
    /\ ScoreLess(last.results[2].score, last.results[1].score)
    /\ \E k \in 1..3 :
           /\ last.similarities[k][1] \notin ResultFiles
           /\ ScoreLess(last.similarities[k][2], last.results[2].score)
    \* the sort had work to do: the best document was not indexed first
    /\ last.results[1].file # last.similarities[1][1]

\* a token of the query is a substring of the lower-cased title or preview
TokenHits(metadata, tokens) ==
    \E i \in 1..Len(tokens) :
        \/ IsSubstring(tokens[i], Lower(Get(metadata, "title", <<>>)))
        \/ IsSubstring(tokens[i], Lower(Get(metadata, "content_preview", <<>>)))

\* the entries of blog_metadata that a token of the last query hits
HitEntries ==
    LET Hit(e) == TokenHits(e[2], _clean_text(last.query))
    IN SelectSeq(blog_metadata, Hit)

\* the score s is the number 1/2
IsHalf(s) == s.a > 0 /\ 4 * s.a * s.a = s.n

(***************************************************************************)
(* C6: _fallback_search returns the first top_k, in blog_metadata order,   *)
(* of the documents of which the lower-cased title or the lower-cased      *)
(* content preview holds a token of the query as a substring, each with    *)
(* the score 0.5; no other document is returned.                           *)
(***************************************************************************)
C6_FallbackFirstMatches ==
    IsFallback =>
        LET n == IF last.top_k < Len(HitEntries) THEN last.top_k ELSE Len(HitEntries)
        IN /\ Len(last.results) = n
           /\ \A i \in 1..n :
                  /\ last.results[i].file = HitEntries[i][1]
                  /\ last.results[i].metadata = HitEntries[i][2]
                  /\ IsHalf(last.results[i].score)

C6_Witness ==
    /\ IsFallback
    /\ Len(blog_metadata) = 3
    /\ last.top_k = 1
    /\ Len(HitEntries) = 2
    /\ Len(last.results) = 1
    \* the first document is passed over, the third is cut off by top_k
    /\ last.results[1].file = blog_metadata[2][1]
    \* and the hit is in the content preview, not in the title
    /\ ~TokenHits([title |-> Get(blog_metadata[2][2], "title", <<>>)],
                  _clean_text(last.query))

(***************************************************************************)
(* C7: search of an empty or whitespace-only query returns what            *)
(* _fallback_search of the empty query returns, and that is the empty      *)
(* sequence whatever the index holds.                                      *)
(***************************************************************************)
C7_EmptyQueryEmpty ==
    /\ (IsSearch /\ NormalizedQuery = <<>>) =>
           /\ last.results = _fallback_search(<<>>, last.top_k)
           /\ last.results = <<>>
    /\ (IsFallback /\ last.query = <<>>) => last.results = <<>>

C7_Witness ==
    /\ IsSearch
    /\ last.query = <<SP, SP>>
    /\ last.top_k >= 1
    /\ Len(blog_metadata) >= 2
    /\ last.calls = <<"_fallback_search">>

(***************************************************************************)
(* C8: a failing file does not abort the build: the constructor raises     *)
(* only when the model cannot be loaded, and once it has ended every .txt  *)
(* file of the listing that did not fail, listed before or after a failing *)
(* one, is in both mappings.                                               *)
(***************************************************************************)
C8_BuildSurvivesFailures ==
    /\ pc = "raised" => ~model_exists
    /\ Built =>
           \A f \in Range(listing) :
               (IsBlogFile(f) /\ f \notin FailedFiles) =>
                   f \in Keys(blog_metadata) /\ f \in Keys(doc_embeddings)

C8_Witness ==
    /\ Built
    /\ Len(listing) = 3
    /\ ~files[listing[2]].readable
    /\ listing[2] \in FailedFiles
    /\ listing[1] \in Keys(doc_embeddings)
    /\ listing[3] \in Keys(doc_embeddings)

(***************************************************************************)
(* C9: with the directory missing, construction ends without raising and   *)
(* with both mappings empty; every search then returns the empty sequence  *)
(* and get_stats reports 0 blogs.                                          *)
(***************************************************************************)
C9_MissingDirectory ==
    (~dir_exists /\ model_exists) =>
        /\ pc # "raised"
        /\ blog_metadata = <<>> /\ doc_embeddings = <<>>
        /\ IsSearch => last.results = <<>>
        /\ (pc = "returned" /\ last.op = "get_stats") => last.stats.total_blogs = 0

C9_Witness ==
    /\ ~dir_exists
    /\ IsSearch
    /\ last.query = <<"C","a","t",SP>>
    /\ last.top_k >= 1
    /\ error_log # <<>>

Labels ==
    [title |-> TitleLabel, author |-> AuthorLabel,
     category |-> CategoryLabel, url |-> UrlLabel]

\* the metadata stored for the parsed file is that of a header ending at
\* line d of lines
HeaderEndsAt(metadata, lines, d) ==
    /\ \A k \in DOMAIN Labels :
           LET before == {i \in 1..(d - 1) : StartsWith(lines[i], Labels[k])}
           IN IF before = {} THEN k \notin DOMAIN metadata
              ELSE /\ k \in DOMAIN metadata
                   /\ LET i == CHOOSE x \in before : \A y \in before : y <= x
                      IN metadata[k] = Strip(RemoveAll(lines[i], Labels[k]))
    /\ metadata["content_preview"] = JoinLines(SubSeq(lines, d + 1, Len(lines)))

HeaderStopsAtFirst(prefix) ==
    ParsedFile \in Keys(blog_metadata) =>
        LET lines == SplitLines(files[ParsedFile].content)
            delims == {i \in 1..Len(lines) : StartsWith(lines[i], prefix)}
        IN delims # {} =>
               HeaderEndsAt(Lookup(blog_metadata, ParsedFile), lines,
                            CHOOSE d \in delims : \A e \in delims : d <= e)

(***************************************************************************)
(* C10, as claimed: header parsing stops at the first line starting with   *)
(* '=': labelled lines after it change nothing, a label with no line       *)
(* before it is absent from the metadata, a label with lines before it has *)
(* the value of the last of them, and the body is the text after that      *)
(* line.                                                                   *)
(***************************************************************************)
C10_StopsAtAnyEquals == HeaderStopsAtFirst(<<"=">>)

(***************************************************************************)
(* C10, amended: header parsing stops at the first line starting with      *)
(* '===': labelled lines after it change nothing, a label with no line     *)
(* before it is absent from the metadata, a label with lines before it has *)
(* the value of the last of them, and the body is the text after that      *)
(* line.                                                                   *)
(***************************************************************************)
C10_StopsAtTripleEquals == HeaderStopsAtFirst(<<"=","=","=">>)

C10_Witness ==
    /\ ParsedFile \in Keys(blog_metadata)
    /\ LET lines == SplitLines(files[ParsedFile].content)
       IN /\ Len(lines) = 3
          /\ StartsWith(lines[1], AuthorLabel)
          /\ StartsWith(lines[2], Delimiter)
          /\ StartsWith(lines[3], TitleLabel)
    /\ "title" \notin DOMAIN Lookup(blog_metadata, ParsedFile)
    /\ "author" \in DOMAIN Lookup(blog_metadata, ParsedFile)

(***************************************************************************)
(* C14: no search runs both _compute_similarities and _fallback_search,    *)
(* and the results of a search are either all entries of the similarities  *)
(* it computed or all fallback matches with the score 0.5, never a mix.    *)
(***************************************************************************)
C14_PathsExclusive ==
    IsSearch =>
        /\ ~({"_compute_similarities", "_fallback_search"} \subseteq Range(last.calls))
        /\ \/ \A i \in 1..Len(last.results) :
                  \E k \in 1..Len(last.similarities) :
                      last.similarities[k] =
                          <<last.results[i].file, last.results[i].score>>
           \/ /\ last.similarities = <<>>
              /\ \A i \in 1..Len(last.results) :
                     /\ IsHalf(last.results[i].score)
                     /\ \E k \in 1..Len(HitEntries) :
                            HitEntries[k][1] = last.results[i].file

C14_Witness ==
    /\ IsSimilaritySearch
    /\ Len(last.results) >= 2
    /\ Len(last.results) < last.top_k
    \* a document the fallback would match was not scored and is not returned
    /\ \E k \in 1..Len(HitEntries) : HitEntries[k][1] \notin ResultFiles

(***************************************************************************)
(* C16: every entry search returns names a file that is a key of both      *)
(* blog_metadata and doc_embeddings, carries the metadata blog_metadata    *)
(* stores for it, and no file is named twice in one result.                *)
(***************************************************************************)
C16_ResultsComeFromIndex ==
    IsSearch =>
        /\ \A i \in 1..Len(last.results) :
               /\ last.results[i].file \in Keys(blog_metadata)
               /\ last.results[i].file \in Keys(doc_embeddings)
               /\ last.results[i].metadata =
                      Lookup(blog_metadata, last.results[i].file)
        /\ \A i, j \in 1..Len(last.results) :
               i # j => last.results[i].file # last.results[j].file

C16_Witness ==
    /\ IsSimilaritySearch
    /\ Len(last.results) = 2
    \* a file whose embedding step failed is in blog_metadata alone
    /\ Keys(blog_metadata) # Keys(doc_embeddings)

(***************************************************************************)
(* C15: _create_document_emedding(words) is the component-wise mean of the *)
(* vectors of the words the table holds, each counted as often as it       *)
(* occurs; it is the zero vector of dimension vector_size when the table   *)
(* holds none of the words; and every permutation of words gives the same  *)
(* embedding.  Embeddings are exact fractions num/den.                     *)
(***************************************************************************)
Count(w, words) == Cardinality({i \in 1..Len(words) : words[i] = w})

RECURSIVE WeightedSum(_, _, _)
WeightedSum(S, words, i) ==
    IF S = {} THEN 0
    ELSE LET w == CHOOSE x \in S : TRUE
         IN Count(w, words) * wv[w][i] + WeightedSum(S \ {w}, words, i)

Resolved(words) == Cardinality({i \in 1..Len(words) : words[i] \in DOMAIN wv})

SameFraction(e, f) ==
    /\ Len(e.num) = Len(f.num)
    /\ \A i \in 1..Len(e.num) : e.num[i] * f.den = f.num[i] * e.den

Orderings(n) ==
    {p \in [1..n -> 1..n] : \A i, j \in 1..n : i # j => p[i] # p[j]}

IsEmbedded == last.op = "_create_document_emedding"

IsResponse == pc = "serving" /\ last.op = "response"

C11_QueriesLeaveIndexAlone ==
    [][(pc = "serving" /\ search_engine = "engine") =>
          /\ blog_metadata' = blog_metadata
          /\ doc_embeddings' = doc_embeddings
          /\ (last' # last /\ last'.op = "response") =>
                 /\ last'.response = RunAlone(last'.request).response
                 /\ last'.raised = RunAlone(last'.request).raised]_vars

C11_Witness ==
    /\ IsResponse
    /\ search_engine = "engine"
    /\ last.request.op = "/search"
    /\ last.concurrent
    /\ Len(last.response.body.results) = 2
    /\ \E t \in 1..NThreads : InFlight(t)

(***************************************************************************)
(* C12: the response to a search request that raised is generic: status    *)
(* 500, no results, and nothing of the exception in it; and the server     *)
(* goes on serving.                                                        *)
(***************************************************************************)
C12_GenericFailure ==
    (IsResponse /\ last.raised # "") =>
        /\ last.response.status = 500
        /\ "results" \notin last.response.body.keys
        /\ last.response.body.results = <<>>
        /\ last.response.body.message # last.raised

(***************************************************************************)
(* C13: while search_engine is None, every response to /search and /stats  *)
(* is the "not initialized" error, every response to /suggest is the empty *)
(* list, /health says unhealthy, not loaded, 0 blogs and 0 words, no       *)
(* engine operation was invoked for any of them, and none is running.      *)
(***************************************************************************)
C13_UnavailableAlwaysChecked ==
    (pc = "serving" /\ search_engine = "None") =>
        /\ \A t \in 1..NThreads : ~InFlight(t)
        /\ last.op = "response" =>
            LET op == last.request.op
                response == last.response
            IN /\ op \in {"/search", "/stats", "/suggest", "/health"}
               /\ last.calls = <<>>
               /\ op \in {"/search", "/stats"} =>
                      /\ response.status = 500
                      /\ response.body.error = "Search engine not initialized"
                      /\ response.body.keys \subseteq {"error", "message"}
               /\ op = "/suggest" =>
                      /\ response.body.json = "list"
                      /\ response.body.keys = {}
                      /\ response.body.suggestions = <<>>
               /\ op = "/health" =>
                      /\ response.body.status = "unhealthy"
                      /\ ~response.body.search_engine_loaded
                      /\ response.body.blog_count = 0
                      /\ response.body.vocabulary_size = 0

C13_Witness ==
    /\ IsResponse
    /\ search_engine = "None"
    /\ ~model_exists
    /\ last.request = Req("/search", "query", <<"C","a","t",SP>>, 0)

====
